---- MODULE Spec2Model ----
(***************************************************************************)
(* Turn-taking core of GeminiInterviewComponent: recording sessions, voice *)
(* activity analysis, the silence countdown, the AI round trip, playback,  *)
(* and the conversation state (history, phase, candidate info).            *)
(*                                                                         *)
(* Every handler of the component runs to its next await without being     *)
(* interrupted (one JavaScript thread), so every action below is one       *)
(* handler, or the part of an async function between two awaits.  React    *)
(* re-renders between two handlers: the button sees the state a handler    *)
(* left behind.                                                            *)
(***************************************************************************)
EXTENDS Integers, Sequences, FiniteSets, TLC

VARIABLES
  \* refs (useRef)
  mediaRecorderRef,             \* state of the recorder held by the ref
  recorderSessionId,            \* sessionId captured by that recorder's ondataavailable
  audioContextRef,              \* "none" | "running" | "closed" (analyserRef goes with it)
  streamRef,                    \* "none" | "live" | "stopped"
  chunksRef,                    \* the utterance buffer
  silenceTimerRef,              \* "none" | "pending" | "fired"
  timeouts,                     \* silence countdowns set and neither expired nor cleared
  analysisIntervalRef,          \* TRUE when the ref holds a running interval
  currentAudioRef,              \* the audio element of the last response
  previousSpeakingStateRef,
  hasSpokenInCurrentSessionRef,
  isProcessingRef,
  isPlayingTTSRef,
  currentRecordingSessionRef,
  \* state (useState)
  isActive,
  isProcessing,
  isPlayingTTS,
  hasSpokenInCurrentSession,
  error,
  sessionStartTime,             \* TRUE when the state holds the start of a session
  conversationHistory,
  interviewPhase,
  candidateInfo,
  \* the environment of the component
  mounted,                      \* FALSE once the effect cleanup of unmount has run
  sends,                        \* sendCurrentAudio calls suspended at an await
  starts,                       \* startRealTimeRecording calls suspended at an await
  usageReports,                 \* stopRealTimeRecording calls suspended at addSessionUsage
  accounted,                    \* TRUE when the usage accounting of the sessions is followed
  silenceTimer,                 \* the displayed progress of the countdown (state)
  updateTimers,                 \* updateTimer callbacks scheduled and not yet run
  progress,                     \* TRUE when the progress display of the countdown is followed
  useInterview,                 \* the useInterview hook of InterviewForm and its voice client
  pendingFinals,                \* final dataavailable events of stopped recorders
  orphans,                      \* stream + context + interval no ref points to any more
  analyserLevel                 \* classification a closed context's analyser answers

component ==
        <<mediaRecorderRef, recorderSessionId, audioContextRef, streamRef,
          chunksRef, silenceTimerRef, timeouts, analysisIntervalRef,
          currentAudioRef, previousSpeakingStateRef, hasSpokenInCurrentSessionRef,
          isProcessingRef, isPlayingTTSRef, currentRecordingSessionRef,
          isActive, isProcessing, isPlayingTTS, hasSpokenInCurrentSession,
          error, sessionStartTime, conversationHistory, interviewPhase,
          candidateInfo, mounted, sends, starts, usageReports, accounted,
          silenceTimer, updateTimers, progress,
          pendingFinals, orphans, analyserLevel>>

vars == <<component, useInterview>>

----------------------------------------------------------------------------
\* Bounds of the model

MaxSession == 3        \* largest session id explored
MaxChunks == 2         \* largest utterance buffer explored
MaxSends == 2          \* sendCurrentAudio calls that may be suspended at once
MaxStarts == 1         \* startRealTimeRecording calls that may be suspended at once
MaxOrphans == 0        \* orphaned stream/context/interval triples explored
MaxFinals == 1         \* final dataavailable events that may be undelivered at once
ChunkBytes == 500      \* byte size of a chunk that holds audio
MaxDoubleStarts == 2   \* suspended starts explored by SpecDoubleStart
MaxLeaks == 1          \* orphaned triples explored by SpecDoubleStart
MaxUpdateTimers == 1   \* updateTimer callbacks scheduled at a time
MaxCalls == 2          \* calls started through the useInterview hook
MaxTranscript == 1     \* final transcript messages kept by the hook
MaxHandlers == 6       \* handlers attached to one event of the voice client
MaxAwaiting == 2       \* handlers of the hook suspended at addSessionUsage
MaxUsage == 2          \* additions to the usage accounting explored
MaxReports == 1        \* addSessionUsage calls that may be in flight at once
MaxTurns == 13         \* longest history explored by SpecPhase
MaxPromptTurns == 2    \* longest history explored by SpecPrompt

----------------------------------------------------------------------------
\* Values

None == "none"

\* minimum size of the audio blob
MinAudioSize == 1000

\* length of the silence countdown, and the period of its progress display (ms)
SILENCE_DURATION == 1500
UpdateStep == 50

ChunkSizes == {0, ChunkBytes}

\* "本日はお時間をいただきありがとうございます。まずは簡単に自己紹介をお願いできますか？"
initialMessage == "greeting"

AudioPlaceholder == "[Audio message]"

\* Transcripts the endpoint may return:
\*   "TARO"    stands for  私は太郎です          (name pattern 1 captures 太郎)
\*   "HANAKO"  stands for  私の名前は花子です    (name pattern 1 captures 花子)
Transcripts == {"TARO", "HANAKO"}

ResponseText == "Q2"

Turn(r, c) == [role |-> r, content |-> c]

EmptyInfo == [name |-> None, university |-> None, experience |-> None,
              company |-> None, skills |-> None]

\* What the closure of the first render sees.  analyzeAudio is memoised with
\* an empty dependency list, so the sendCurrentAudio its timeout calls is the
\* one of the first render, with that render's conversationHistory,
\* interviewPhase, candidateInfo and createSystemPrompt.
FirstRender == [conversationHistory |-> <<>>,
                interviewPhase |-> "introduction",
                candidateInfo |-> EmptyInfo]

----------------------------------------------------------------------------
\* The component as one record, so that a handler is the composition of the
\* functions it calls.

Cur ==
  [mediaRecorderRef |-> mediaRecorderRef, recorderSessionId |-> recorderSessionId,
   audioContextRef |-> audioContextRef, streamRef |-> streamRef,
   chunksRef |-> chunksRef, silenceTimerRef |-> silenceTimerRef,
   timeouts |-> timeouts,
   analysisIntervalRef |-> analysisIntervalRef, currentAudioRef |-> currentAudioRef,
   previousSpeakingStateRef |-> previousSpeakingStateRef,
   hasSpokenInCurrentSessionRef |-> hasSpokenInCurrentSessionRef,
   isProcessingRef |-> isProcessingRef, isPlayingTTSRef |-> isPlayingTTSRef,
   currentRecordingSessionRef |-> currentRecordingSessionRef,
   isActive |-> isActive, isProcessing |-> isProcessing,
   isPlayingTTS |-> isPlayingTTS,
   hasSpokenInCurrentSession |-> hasSpokenInCurrentSession,
   error |-> error, sessionStartTime |-> sessionStartTime,
   usageReports |-> usageReports, accounted |-> accounted,
   silenceTimer |-> silenceTimer, updateTimers |-> updateTimers,
   progress |-> progress,
   conversationHistory |-> conversationHistory,
   interviewPhase |-> interviewPhase, candidateInfo |-> candidateInfo,
   mounted |-> mounted, sends |-> sends, starts |-> starts,
   pendingFinals |-> pendingFinals, orphans |-> orphans,
   analyserLevel |-> analyserLevel]

\* The handler's result becomes the next state, within the bounds.
Commit(w) ==
  /\ w.currentRecordingSessionRef <= MaxSession
  /\ Len(w.chunksRef) <= MaxChunks
  /\ Len(w.sends) <= MaxSends
  /\ Cardinality(w.pendingFinals) <= MaxFinals
  /\ w.usageReports <= MaxReports
  /\ w.updateTimers <= MaxUpdateTimers
  /\ useInterview' = useInterview
  /\ silenceTimer' = w.silenceTimer
  /\ updateTimers' = w.updateTimers
  /\ progress' = w.progress
  /\ sessionStartTime' = w.sessionStartTime
  /\ usageReports' = w.usageReports
  /\ accounted' = w.accounted
  /\ mediaRecorderRef' = w.mediaRecorderRef
  /\ recorderSessionId' = w.recorderSessionId
  /\ audioContextRef' = w.audioContextRef
  /\ streamRef' = w.streamRef
  /\ chunksRef' = w.chunksRef
  /\ silenceTimerRef' = w.silenceTimerRef
  /\ timeouts' = w.timeouts
  /\ analysisIntervalRef' = w.analysisIntervalRef
  /\ currentAudioRef' = w.currentAudioRef
  /\ previousSpeakingStateRef' = w.previousSpeakingStateRef
  /\ hasSpokenInCurrentSessionRef' = w.hasSpokenInCurrentSessionRef
  /\ isProcessingRef' = w.isProcessingRef
  /\ isPlayingTTSRef' = w.isPlayingTTSRef
  /\ currentRecordingSessionRef' = w.currentRecordingSessionRef
  /\ isActive' = w.isActive
  /\ isProcessing' = w.isProcessing
  /\ isPlayingTTS' = w.isPlayingTTS
  /\ hasSpokenInCurrentSession' = w.hasSpokenInCurrentSession
  /\ error' = w.error
  /\ conversationHistory' = w.conversationHistory
  /\ interviewPhase' = w.interviewPhase
  /\ candidateInfo' = w.candidateInfo
  /\ mounted' = w.mounted
  /\ sends' = w.sends
  /\ starts' = w.starts
  /\ pendingFinals' = w.pendingFinals
  /\ orphans' = w.orphans
  /\ analyserLevel' = w.analyserLevel

\* A state setter of useState: React drops the update of an unmounted component.
SetState(w, field, value) ==
  IF w.mounted THEN [w EXCEPT ![field] = value] ELSE w

RemoveAt(s, i) == [j \in 1..(Len(s) - 1) |-> IF j < i THEN s[j] ELSE s[j + 1]]

RECURSIVE BlobSize(_)
BlobSize(chunks) ==
  IF chunks = <<>> THEN 0 ELSE Head(chunks).size + BlobSize(Tail(chunks))

UserMessageCount(history) ==
  Cardinality({i \in 1..Len(history) : history[i].role = "user"})

----------------------------------------------------------------------------
\* Conversation state

updateInterviewPhase_CountsEveryTurn(history) ==
  IF Len(history) <= 2 THEN "introduction"
  ELSE IF Len(history) <= 5 THEN "experience"
  ELSE IF Len(history) <= 8 THEN "skills"
  ELSE IF Len(history) <= 11 THEN "motivation"
  ELSE "closing"

updateInterviewPhase_FromFirstTurn(history) ==
  IF UserMessageCount(history) <= 0 THEN "introduction" ELSE "experience"

updateInterviewPhase(history) ==
  LET userMessageCount == UserMessageCount(history)
  IN  IF userMessageCount <= 2 THEN "introduction"
      ELSE IF userMessageCount <= 5 THEN "experience"
      ELSE IF userMessageCount <= 8 THEN "skills"
      ELSE IF userMessageCount <= 11 THEN "motivation"
      ELSE "closing"

\* Transcripts a candidate may speak, with what the pattern lists capture:
\*   "TARO"        私は太郎です                  name 太郎
\*   "HANAKO"      私の名前は花子です            name 花子
\*   "TODAI"       東京大学出身です              university 東京大学出身
\*   "KYODAI"      京都大学を卒業しました        university 京都大学を
\*   "ABC"         会社はABC商事です             company ABC商事
\*   "XYZ"         会社はXYZ物産でした           company XYZ物産
\*   "SALES"       営業の経験があります          experience 営業の経験が
\*   "PROGRAMMING" プログラミングが得意です      skills プログラミングが得意で
\*   "TARO_TODAI"  私は太郎です。東京大学出身です
\*                 name 太郎, university 私は太郎です。東京大学出身
\*   "HAI"         はい                          nothing
SpokenTranscripts ==
  {"TARO", "HANAKO", "TODAI", "KYODAI", "ABC", "XYZ", "SALES", "PROGRAMMING",
   "TARO_TODAI", "HAI"}

Kinds == {"name", "university", "experience", "company", "skills"}

\* First capture of the namePatterns on the transcript, trimmed; None when no
\* pattern matches.
NameMatch(userTranscript) ==
  CASE userTranscript \in {"TARO", "TARO_TODAI"} -> "Taro"
    [] userTranscript = "HANAKO" -> "Hanako"
    [] OTHER -> None

\* First capture of the universityPatterns longer than 2 characters.
UniversityMatch(userTranscript) ==
  CASE userTranscript = "TODAI" -> "Todai-shusshin"
    [] userTranscript = "KYODAI" -> "Kyodai-wo"
    [] userTranscript = "TARO_TODAI" -> "Watashi-wa-Taro-desu-Todai-shusshin"
    [] OTHER -> None

\* First capture of the experiencePatterns longer than 5 characters.
ExperienceMatch(userTranscript) ==
  IF userTranscript = "SALES" THEN "Eigyo-no-keiken-ga" ELSE None

\* First capture of the companyPatterns longer than 2 characters.
CompanyMatch(userTranscript) ==
  CASE userTranscript = "ABC" -> "ABC-shoji"
    [] userTranscript = "XYZ" -> "XYZ-bussan"
    [] OTHER -> None

\* First capture of the skillsPatterns longer than 3 characters.
SkillsMatch(userTranscript) ==
  IF userTranscript = "PROGRAMMING" THEN "Programming-ga-tokui-de" ELSE None

KindMatch(kind, userTranscript) ==
  CASE kind = "name" -> NameMatch(userTranscript)
    [] kind = "university" -> UniversityMatch(userTranscript)
    [] kind = "experience" -> ExperienceMatch(userTranscript)
    [] kind = "company" -> CompanyMatch(userTranscript)
    [] OTHER -> SkillsMatch(userTranscript)

updateCandidateInfo_Overwrites(prev, userTranscript) ==
  [kind \in Kinds |->
     IF KindMatch(kind, userTranscript) # None
     THEN KindMatch(kind, userTranscript)
     ELSE prev[kind]]

\* The updater handed to setCandidateInfo: every kind has its own
\* "if (!updated.kind)" in front of its pattern list.
updateCandidateInfo(prev, userTranscript) ==
  [kind \in Kinds |->
     IF prev[kind] = None /\ KindMatch(kind, userTranscript) # None
     THEN KindMatch(kind, userTranscript)
     ELSE prev[kind]]

----------------------------------------------------------------------------
\* Prompt composer.  A text is the sequence of its lines; the fixed
\* instruction blocks of the prompt are left out, the parts that depend on
\* the state are kept in the order of the template.

\* "まだ会話が始まっていません。"
NoConversationYet == "no conversation yet"

\* "候補者" and "面接官"
CandidateLabel == "candidate"

InterviewerLabel == "interviewer"

Line(label, content) == [label |-> label, content |-> content]

\* One entry of history.map: a user turn gives the exchange header
\* 【やり取りN】 with N = floor(index / 2) + 1 and the labelled turn, an
\* assistant turn gives the labelled turn.
FormatTurn(msg, index) ==
  IF msg.role = "user"
  THEN <<Line("exchange", (index \div 2) + 1), Line(CandidateLabel, msg.content)>>
  ELSE <<Line(InterviewerLabel, msg.content)>>

RECURSIVE JoinFrom(_, _)
JoinFrom(history, k) ==
  IF k > Len(history) THEN <<>>
  ELSE FormatTurn(history[k], k - 1) \o JoinFrom(history, k + 1)

formatConversationHistory_Reversed(history) ==
  IF Len(history) = 0 THEN <<Line("text", NoConversationYet)>>
  ELSE JoinFrom([k \in 1..Len(history) |-> history[Len(history) + 1 - k]], 1)

formatConversationHistory(history) ==
  IF Len(history) = 0 THEN <<Line("text", NoConversationYet)>>
  ELSE JoinFrom(history, 1)

\* 自己紹介, 経歴・経験, スキル確認, 志望動機, 質疑応答
PhaseLabel(phase) ==
  CASE phase = "introduction" -> "jikoshokai"
    [] phase = "experience" -> "keireki-keiken"
    [] phase = "skills" -> "sukiru-kakunin"
    [] phase = "motivation" -> "shibo-doki"
    [] OTHER -> "shitsugi-oto"

FactLine(info, kind) ==
  IF info[kind] # None THEN <<Line(kind, info[kind])>> ELSE <<>>

\* candidateInfoText: the sheet is rendered when it holds a name.
CandidateInfoText(info) ==
  IF info.name # None
  THEN <<Line("name", info.name)>> \o FactLine(info, "university")
         \o FactLine(info, "company") \o FactLine(info, "experience")
         \o FactLine(info, "skills")
  ELSE <<>>

\* createSystemPrompt of the render whose conversationHistory, interviewPhase
\* and candidateInfo are those of c.
createSystemPrompt(c) ==
  [introPhaseBlock |-> c.interviewPhase = "introduction",
   phase |-> PhaseLabel(c.interviewPhase),
   history |-> formatConversationHistory(c.conversationHistory),
   candidateInfoText |-> CandidateInfoText(c.candidateInfo)]

----------------------------------------------------------------------------
\* Recording session controller

\* if (silenceTimerRef.current) clearTimeout(silenceTimerRef.current), and
\* the ref set to null.  Clearing a countdown that has expired does nothing.
ForgetSilenceTimer(w) ==
  [w EXCEPT !.silenceTimerRef = None]

ClearSilenceTimer(w) ==
  [w EXCEPT !.timeouts = IF w.silenceTimerRef = "pending" THEN @ - 1 ELSE @,
            !.silenceTimerRef = None]

\* recorder.stop(): the recorder delivers the data it still holds in a final
\* dataavailable event, in a later task.
StopRecorder(w, superseded) ==
  IF w.mediaRecorderRef = "recording"
  THEN [w EXCEPT !.mediaRecorderRef = "inactive",
                 !.pendingFinals = @ \cup {[sessionId |-> w.recorderSessionId,
                                            superseded |-> superseded]}]
  ELSE w

\* level: what the analyser of the closed context goes on answering.
cleanup(w, level) ==
  LET w1 == ClearSilenceTimer(StopRecorder(w, FALSE))
  IN  [w1 EXCEPT !.streamRef = IF @ = None THEN None ELSE "stopped",
                 !.audioContextRef = IF @ = None THEN None ELSE "closed",
                 !.analyserLevel = IF w.audioContextRef = "running" THEN level ELSE @,
                 !.currentAudioRef = None,
                 !.chunksRef = <<>>,
                 !.analysisIntervalRef = FALSE,
                 !.previousSpeakingStateRef = FALSE,
                 !.hasSpokenInCurrentSessionRef = FALSE,
                 !.isProcessingRef = FALSE,
                 !.isPlayingTTSRef = FALSE]

\* recorder.start(200) throws NotSupportedError on a stream whose tracks ended.
RecorderStartThrows(w) == w.streamRef = "stopped" /\ w.audioContextRef # None

startNewRecordingSession_KeepsSpeakingState(w) ==
  LET w1 == [w EXCEPT !.currentRecordingSessionRef = @ + 1]
      w2 == IF w1.mediaRecorderRef = "recording"
            THEN [w1 EXCEPT !.mediaRecorderRef = "inactive",
                            !.pendingFinals =
                               @ \cup {[sessionId |-> w1.recorderSessionId,
                                        superseded |-> TRUE]}]
            ELSE w1
      w3 == [w2 EXCEPT !.chunksRef = <<>>,
                       !.hasSpokenInCurrentSessionRef = FALSE,
                       !.timeouts = IF w2.silenceTimerRef = "pending"
                                    THEN @ - 1 ELSE @,
                       !.silenceTimerRef = None]
      w4 == IF w3.mounted THEN [w3 EXCEPT !.hasSpokenInCurrentSession = FALSE]
            ELSE w3
  IN  IF w4.streamRef # None /\ w4.audioContextRef # None
      THEN [w4 EXCEPT !.mediaRecorderRef =
                         IF w4.streamRef = "live" THEN "recording" ELSE "inactive",
                      !.recorderSessionId = w4.currentRecordingSessionRef,
                      !.pendingFinals =
                         {[p EXCEPT !.superseded = TRUE] : p \in w4.pendingFinals}]
      ELSE w4

startNewRecordingSession(w) ==
  LET w1 == [w EXCEPT !.currentRecordingSessionRef = @ + 1]
      w2 == StopRecorder(w1, TRUE)
      w3 == ClearSilenceTimer([w2 EXCEPT !.chunksRef = <<>>,
                                         !.hasSpokenInCurrentSessionRef = FALSE,
                                         !.previousSpeakingStateRef = FALSE])
      w4 == SetState(SetState(w3, "hasSpokenInCurrentSession", FALSE),
                     "silenceTimer", 0)
  IN  IF w4.streamRef # None /\ w4.audioContextRef # None
      THEN [w4 EXCEPT !.mediaRecorderRef =
                         IF w4.streamRef = "live" THEN "recording" ELSE "inactive",
                      !.recorderSessionId = w4.currentRecordingSessionRef,
                      !.pendingFinals =
                         {[p EXCEPT !.superseded = TRUE] : p \in w4.pendingFinals}]
      ELSE w4

ondataavailable_NoPlayingCheck(w, e) ==
  IF /\ e.size > 0
     /\ ~w.isProcessingRef
     /\ e.sessionId = w.currentRecordingSessionRef
  THEN [w EXCEPT !.chunksRef = Append(@, e)]
  ELSE w

ondataavailable(w, e) ==
  IF /\ e.size > 0
     /\ ~w.isProcessingRef
     /\ ~w.isPlayingTTSRef
     /\ e.sessionId = w.currentRecordingSessionRef
  THEN [w EXCEPT !.chunksRef = Append(@, e)]
  ELSE w

----------------------------------------------------------------------------
\* Turn orchestrator: sendCurrentAudio

NoData == [text |-> None, transcript |-> None, audio |-> FALSE]

\* Bodies the endpoint may answer with; audio stands for audio and mimeType,
\* which the endpoint sets together.
ResponseData == [text : {None, ResponseText},
                 transcript : Transcripts \cup {None},
                 audio : BOOLEAN]

\* The values of conversationHistory, interviewPhase and candidateInfo that
\* the running sendCurrentAudio reads.
SendClosure(w) == FirstRender

\* The request a sendCurrentAudio whose closure is c posts, suspended at
\* its fetch: the context and the system prompt are built from c.
Request(c) ==
  [pc |-> "fetch", closure |-> c, context |-> c,
   systemPrompt |-> createSystemPrompt(c), data |-> NoData]

\* Entry of sendCurrentAudio past its guard: the flag and its mirror.
EnterProcessing(w) ==
  SetState([w EXCEPT !.isProcessingRef = TRUE], "isProcessing", TRUE)

Finally(w) ==
  SetState([w EXCEPT !.isProcessingRef = FALSE], "isProcessing", FALSE)

\* The messages of the errors a turn can end with; setError shows them after
\* the prefix "エラーが発生しました: ".
EmptyAudio == "Empty audio data"

TooSmall == "Audio data too small - please speak longer"

MalformedBody == "invalid JSON body"

ApiError == "API Error"

NoText == "No text response from API"

FetchFailed == "Failed to fetch"

SaveFailed == "saveTranscript failed"

PlayFailed == "play failed"

RecorderFailed == "recorder start failed"

Catch_ForgetsConversation(w, message) ==
  Finally(startNewRecordingSession(
    SetState(SetState(w, "conversationHistory", <<>>), "error", message)))

Catch_NoRestart(w, message) ==
  Finally(SetState(w, "error", message))

\* catch block and finally block; the exception of a failing recorder start
\* leaves the catch block after the session id was advanced.
Catch(w, message) ==
  Finally(startNewRecordingSession(SetState(w, "error", message)))

sendCurrentAudio_NoFloor(w) ==
  IF w.chunksRef = <<>> \/ w.isProcessingRef THEN w
  ELSE
    LET w1 == EnterProcessing(w)
        w2 == [ClearSilenceTimer(w1) EXCEPT !.chunksRef = <<>>,
                                            !.hasSpokenInCurrentSessionRef = FALSE,
                                            !.previousSpeakingStateRef = FALSE]
        w3 == SetState(w2, "hasSpokenInCurrentSession", FALSE)
        w4 == SetState(w3, "error", "")
    IN  [w4 EXCEPT !.sends = Append(@, Request(SendClosure(w4)))]

sendCurrentAudio(w) ==
  IF w.chunksRef = <<>> \/ w.isProcessingRef THEN w
  ELSE
    LET audioChunks == w.chunksRef
        w1 == EnterProcessing(w)
        w2 == [SetState(ClearSilenceTimer(w1), "silenceTimer", 0)
                 EXCEPT !.chunksRef = <<>>,
                                            !.hasSpokenInCurrentSessionRef = FALSE,
                                            !.previousSpeakingStateRef = FALSE]
        w3 == SetState(w2, "hasSpokenInCurrentSession", FALSE)
        w4 == SetState(w3, "error", "")
    IN  IF BlobSize(audioChunks) = 0 THEN Catch(w4, EmptyAudio)
        ELSE IF BlobSize(audioChunks) < MinAudioSize THEN Catch(w4, TooSmall)
        ELSE [w4 EXCEPT !.sends = Append(@, Request(SendClosure(w4)))]

ApplyResponse_AlwaysPlays(w, i) ==
  LET send == w.sends[i]
      data == send.data
      newUserMessage ==
        Turn("user", IF data.transcript # None THEN data.transcript
                     ELSE AudioPlaceholder)
      newAssistantMessage == Turn("assistant", data.text)
      newHistory == send.closure.conversationHistory
                      \o <<newUserMessage, newAssistantMessage>>
      w1 == SetState(w, "conversationHistory", newHistory)
      w2 == SetState(w1, "interviewPhase", updateInterviewPhase(newHistory))
      w3 == IF data.transcript # None
            THEN SetState(w2, "candidateInfo",
                          updateCandidateInfo(w2.candidateInfo, data.transcript))
            ELSE w2
  IN  SetState([w3 EXCEPT !.currentAudioRef = "starting",
                          !.isPlayingTTSRef = TRUE,
                          !.chunksRef = <<>>,
                          !.sends[i].pc = "play"],
               "isPlayingTTS", TRUE)

\* The part of sendCurrentAudio after the awaits of fetch, json and
\* saveTranscript: the history update and the playback branch.
ApplyResponse(w, i) ==
  LET send == w.sends[i]
      data == send.data
      newUserMessage ==
        Turn("user", IF data.transcript # None THEN data.transcript
                     ELSE AudioPlaceholder)
      newAssistantMessage == Turn("assistant", data.text)
      newHistory == send.closure.conversationHistory
                      \o <<newUserMessage, newAssistantMessage>>
      w1 == SetState(w, "conversationHistory", newHistory)
      w2 == SetState(w1, "interviewPhase", updateInterviewPhase(newHistory))
      w3 == IF data.transcript # None
            THEN SetState(w2, "candidateInfo",
                          updateCandidateInfo(w2.candidateInfo, data.transcript))
            ELSE w2
  IN  IF data.audio
      THEN SetState([w3 EXCEPT !.currentAudioRef = "starting",
                               !.isPlayingTTSRef = TRUE,
                               !.chunksRef = <<>>,
                               !.sends[i].pc = "play"],
                    "isPlayingTTS", TRUE)
      ELSE LET w4 == [w3 EXCEPT !.sends = RemoveAt(@, i)]
           IN  IF RecorderStartThrows(w4)
               THEN Catch(startNewRecordingSession(w4), RecorderFailed)
               ELSE Finally(startNewRecordingSession(w4))

PlaybackOver_NoRestart(w) ==
  SetState([w EXCEPT !.currentAudioRef = None, !.isPlayingTTSRef = FALSE],
           "isPlayingTTS", FALSE)

\* audio.onended and audio.onerror have the same body.
PlaybackOver(w) ==
  startNewRecordingSession(
    SetState([w EXCEPT !.currentAudioRef = None, !.isPlayingTTSRef = FALSE],
             "isPlayingTTS", FALSE))

----------------------------------------------------------------------------
\* Voice activity monitor

analyzeAudio_NoTransitionCheck(w, level) ==
  IF w.audioContextRef = None \/ w.isProcessingRef \/ w.isPlayingTTSRef THEN w
  ELSE
    LET currentlySpeaking ==
          IF w.audioContextRef = "running" THEN level ELSE w.analyserLevel
        w1 == IF currentlySpeaking
              THEN SetState(ClearSilenceTimer(
                              [w EXCEPT !.hasSpokenInCurrentSessionRef = TRUE]),
                            "hasSpokenInCurrentSession", TRUE)
              ELSE IF /\ w.hasSpokenInCurrentSessionRef
                      /\ Len(w.chunksRef) > 0
                      /\ w.silenceTimerRef = None
                   THEN [w EXCEPT !.silenceTimerRef = "pending",
                                  !.timeouts = @ + 1]
                   ELSE w
    IN  [w1 EXCEPT !.previousSpeakingStateRef = currentlySpeaking]

\* updateTimer (349-355), run when `elapsed` has passed since the countdown
\* was set; `running` is elapsed < SILENCE_DURATION.
updateTimer(w, elapsed, running) ==
  LET w1 == SetState(w, "silenceTimer", elapsed)
  IN  IF running /\ w1.silenceTimerRef # None /\ w1.progress
      THEN [w1 EXCEPT !.updateTimers = @ + 1]
      ELSE w1

analyzeAudio(w, level) ==
  IF w.audioContextRef = None \/ w.isProcessingRef \/ w.isPlayingTTSRef THEN w
  ELSE
    LET currentlySpeaking ==
          IF w.audioContextRef = "running" THEN level ELSE w.analyserLevel
        previouslySpeaking == w.previousSpeakingStateRef
        w0 == w
        w1 == IF currentlySpeaking
              THEN SetState(SetState(ClearSilenceTimer(
                              [w0 EXCEPT !.hasSpokenInCurrentSessionRef = TRUE]),
                            "hasSpokenInCurrentSession", TRUE),
                            "silenceTimer", 0)
              ELSE IF /\ w0.hasSpokenInCurrentSessionRef
                      /\ previouslySpeaking
                      /\ ~currentlySpeaking
                      /\ Len(w0.chunksRef) > 0
                      /\ w0.silenceTimerRef = None
                      /\ ~w0.isProcessingRef
                      /\ ~w0.isPlayingTTSRef
                   THEN updateTimer([w0 EXCEPT !.silenceTimerRef = "pending",
                                               !.timeouts = @ + 1],
                                    0, TRUE)
                   ELSE w0
    IN  [w1 EXCEPT !.previousSpeakingStateRef = currentlySpeaking]

----------------------------------------------------------------------------
\* Session start and stop

handleInitialAIGreeting(w) ==
  SetState(w, "conversationHistory", <<Turn("assistant", initialMessage)>>)

\* startRealTimeRecording after getUserMedia resolved.
BeginSession(w) ==
  LET w1 == [w EXCEPT !.orphans = IF w.streamRef = "live" THEN @ + 1 ELSE @,
                      !.streamRef = "live",
                      !.audioContextRef = "running",
                      !.analyserLevel = FALSE]
      w2 == SetState(w1, "conversationHistory", <<>>)
      w3 == SetState(w2, "interviewPhase", "introduction")
      w4 == SetState(w3, "candidateInfo", EmptyInfo)
      w5 == IF w.accounted
            THEN SetState(SetState(w4, "error", ""), "sessionStartTime", TRUE)
            ELSE SetState(w4, "error", "")
      w6 == startNewRecordingSession(w5)
      w7 == [w6 EXCEPT !.analysisIntervalRef = TRUE]
  IN  SetState(w7, "isActive", TRUE)

\* stopRealTimeRecording up to its await: with a start time in the state of
\* the render that was clicked, the minutes (rounded up, so at least one)
\* are handed to addSessionUsage.
stopRealTimeRecording(w, level) ==
  LET w1 == cleanup(w, level)
      w2 == SetState(SetState(w1, "isActive", FALSE), "silenceTimer", 0)
      w3 == SetState(w2, "isPlayingTTS", FALSE)
      w4 == SetState(w3, "isProcessing", FALSE)
      w5 == [w4 EXCEPT !.currentRecordingSessionRef = 0]
  IN  IF w.accounted /\ w.sessionStartTime
      THEN [w5 EXCEPT !.usageReports = @ + 1]
      ELSE w5

----------------------------------------------------------------------------
\* State after the first render

\* The component whose first render holds the conversation state c.
----------------------------------------------------------------------------
\* The useInterview hook (InterviewForm.tsx) and the voice client it
\* listens to.

Events == {"call-start", "call-end", "message", "error",
           "speech-start", "speech-end"}

\* what the handlers of one effect run close over
Deps(h) == [sessionStartTime |-> h.sessionStartTime,
            callStatus |-> h.callStatus,
            fullTranscript |-> h.fullTranscript]

\* The voice client keeps the handlers of an event in a list: on appends a
\* registration, off removes one registration of the handler (the last).
on(list, f) == Append(list, f)

off(list, f) ==
  IF \A i \in 1..Len(list) : list[i] # f THEN list
  ELSE LET last == CHOOSE i \in 1..Len(list) :
                     /\ list[i] = f
                     /\ \A j \in (i + 1)..Len(list) : list[j] # f
       IN  SubSeq(list, 1, last - 1) \o SubSeq(list, last + 1, Len(list))

\* the effect's body (641-647) and its cleanup (649-658)
Attach(listeners, f) == [e \in Events |-> on(listeners[e], f)]

Detach(listeners, f) ==
  [e \in Events |->
     IF e = "error" THEN off(on(listeners[e], f), f) ELSE off(listeners[e], f)]

\* React re-runs the effect when a dependency changed (659-666).
Render(h) ==
  IF h.mounted /\ h.deps # Deps(h)
  THEN [h EXCEPT !.listeners = Attach(Detach(@, h.deps), Deps(h)),
                 !.deps = Deps(h)]
  ELSE h

SetHook(h, field, value) ==
  IF h.mounted THEN [h EXCEPT ![field] = value] ELSE h

onCallStart(h) ==
  SetHook(SetHook(SetHook(h, "callStatus", "ACTIVE"), "fullTranscript", 0),
          "sessionStartTime", h.calls)

\* the usage part of onCallEnd (563-582) and onError (620-638), up to the
\* await of addSessionUsage
TrackUsage(h, handler, f, minutes) ==
  IF f.sessionStartTime = 0 THEN h
  ELSE IF minutes > 0
       THEN [h EXCEPT !.awaiting =
                        Append(@, [handler |-> handler,
                                   session |-> f.sessionStartTime])]
       ELSE SetHook(h, "sessionStartTime", 0)

onCallEnd(h, f, minutes) ==
  TrackUsage(SetHook(SetHook(h, "callStatus", "FINISHED"), "isSpeaking", FALSE),
             "onCallEnd", f, minutes)

onMessage(h) ==
  SetHook(h, "fullTranscript", h.fullTranscript + 1)

onError(h, f, minutes) ==
  TrackUsage(SetHook(h, "callStatus", "INACTIVE"), "onError", f, minutes)

Handle(h, event, f, minutes) ==
  CASE event = "call-start" -> onCallStart(h)
    [] event = "call-end" -> onCallEnd(h, f, minutes)
    [] event = "message" -> onMessage(h)
    [] event = "error" -> onError(h, f, minutes)
    [] event = "speech-start" -> SetHook(h, "isSpeaking", TRUE)
    [] event = "speech-end" -> SetHook(h, "isSpeaking", FALSE)

RECURSIVE RunHandlers(_, _, _, _)
RunHandlers(h, event, handlers, minutes) ==
  IF handlers = <<>> THEN h
  ELSE RunHandlers(Handle(h, event, Head(handlers), minutes),
                   event, Tail(handlers), minutes)

\* the client calls every handler registered for the event
Emit(h, event, minutes) == RunHandlers(h, event, h.listeners[event], minutes)

HookConstructed ==
  [callStatus |-> "INACTIVE", isSpeaking |-> FALSE, fullTranscript |-> 0,
   sessionStartTime |-> 0, mounted |-> TRUE,
   deps |-> [sessionStartTime |-> 0, callStatus |-> "INACTIVE",
             fullTranscript |-> 0],
   listeners |-> [e \in Events |-> <<>>],
   awaiting |-> <<>>, stopping |-> <<>>, usage |-> <<>>,
   call |-> "idle", calls |-> 0]

\* a page without the interview form
NoHook == None

\* the hook after its first render: the effect has run once
HookMounted ==
  [HookConstructed EXCEPT !.listeners = Attach(@, HookConstructed.deps)]

Constructed(c) ==
  /\ mediaRecorderRef = None
  /\ recorderSessionId = 0
  /\ audioContextRef = None
  /\ streamRef = None
  /\ chunksRef = <<>>
  /\ silenceTimerRef = None
  /\ timeouts = 0
  /\ analysisIntervalRef = FALSE
  /\ currentAudioRef = None
  /\ previousSpeakingStateRef = FALSE
  /\ hasSpokenInCurrentSessionRef = FALSE
  /\ isProcessingRef = FALSE
  /\ isPlayingTTSRef = FALSE
  /\ currentRecordingSessionRef = 0
  /\ isActive = FALSE
  /\ isProcessing = FALSE
  /\ isPlayingTTS = FALSE
  /\ hasSpokenInCurrentSession = FALSE
  /\ error = ""
  /\ sessionStartTime = FALSE
  /\ usageReports = 0
  /\ silenceTimer = 0
  /\ updateTimers = 0
  /\ conversationHistory = c.conversationHistory
  /\ interviewPhase = c.interviewPhase
  /\ candidateInfo = c.candidateInfo
  /\ mounted = TRUE
  /\ sends = <<>>
  /\ starts = <<>>
  /\ pendingFinals = {}
  /\ orphans = 0
  /\ analyserLevel = FALSE

\* The usage accounting of a session reads and writes sessionStartTime and
\* the reports in flight, and no other handler reads them: Init follows the
\* component without the accounting, InitUsage with it.
Init ==
  /\ Constructed(FirstRender)
  /\ accounted = FALSE /\ progress = FALSE /\ useInterview = NoHook

InitUsage ==
  /\ Constructed(FirstRender)
  /\ accounted = TRUE /\ progress = FALSE /\ useInterview = NoHook

\* The progress display of the countdown (silenceTimer and the updateTimer
\* callbacks) is written by the handlers and read by the render only:
\* InitProgress follows the component with it.
InitProgress ==
  /\ Constructed(FirstRender)
  /\ accounted = FALSE /\ progress = TRUE /\ useInterview = NoHook

\* A page with the interview form: its useInterview hook has rendered once.
\* The two components share no state.
InitHook ==
  /\ Constructed(FirstRender)
  /\ accounted = FALSE /\ progress = FALSE /\ useInterview = HookMounted

----------------------------------------------------------------------------
\* Actions: one per handler or per continuation of an async function

\* toggleRecording while the button shows "start": the greeting, then
\* startRealTimeRecording up to its first await (canStartSession).
StartClicked(maxStarts) ==
  /\ mounted /\ ~isProcessing /\ ~isActive
  /\ Len(starts) < maxStarts
  /\ Commit([handleInitialAIGreeting(Cur) EXCEPT !.starts = Append(@, "usage")])

ToggleStart == StartClicked(MaxStarts)

UsageSettle_IgnoresDenial(i, outcome) ==
  /\ i \in 1..Len(starts) /\ starts[i] = "usage"
  /\ Commit([Cur EXCEPT !.starts[i] = "media"])

\* canStartSession settles: allowed, denied, or rejected.
UsageSettle(i, outcome) ==
  /\ i \in 1..Len(starts) /\ starts[i] = "usage"
  /\ LET w == Cur
     IN  CASE outcome = "allow" ->
                Commit([w EXCEPT !.starts[i] = "media"])
           [] outcome = "deny" ->
                Commit(SetState([w EXCEPT !.starts = RemoveAt(@, i)],
                                "error", "usage"))
           [] OTHER ->
                Commit(SetState([w EXCEPT !.starts = RemoveAt(@, i)],
                                "error", "mic"))

\* getUserMedia settles.
MediaSettled(i, granted, maxOrphans) ==
  /\ i \in 1..Len(starts) /\ starts[i] = "media"
  /\ LET w == [Cur EXCEPT !.starts = RemoveAt(@, i)]
     IN  IF granted
         THEN BeginSession(w).orphans <= maxOrphans /\ Commit(BeginSession(w))
         ELSE Commit(SetState(w, "error", "mic"))

MediaSettle(i, granted) == MediaSettled(i, granted, MaxOrphans)

\* toggleRecording while the button shows "stop"; the button is disabled
\* while isProcessing.
ToggleStop(level) ==
  /\ mounted /\ ~isProcessing /\ isActive
  /\ Commit(stopRealTimeRecording(Cur, level))

\* addSessionUsage settles: stopRealTimeRecording goes on to
\* setSessionStartTime(null) when it resolved, and ends when it rejected.
UsageReported(resolved) ==
  /\ usageReports > 0
  /\ LET w == [Cur EXCEPT !.usageReports = @ - 1]
     IN  Commit(IF resolved THEN SetState(w, "sessionStartTime", FALSE) ELSE w)

\* The component is unmounted: the effect cleanup runs cleanup, and React
\* discards the component's state (the refs live on in the closures).
Unmount(level) ==
  /\ mounted
  /\ Commit([cleanup(Cur, level) EXCEPT
               !.mounted = FALSE,
               !.isActive = FALSE,
               !.isProcessing = FALSE,
               !.isPlayingTTS = FALSE,
               !.hasSpokenInCurrentSession = FALSE,
               !.error = "",
               !.sessionStartTime = FALSE,
               !.conversationHistory = <<>>,
               !.interviewPhase = "introduction",
               !.candidateInfo = EmptyInfo])

\* A timeslice of the recording recorder ends.
DataAvailable(size) ==
  /\ mediaRecorderRef = "recording"
  /\ Commit(ondataavailable(Cur, [size |-> size,
                                  sessionId |-> recorderSessionId,
                                  superseded |-> FALSE]))

\* The final dataavailable event of a stopped recorder is delivered.
FinalData(p, size) ==
  /\ p \in pendingFinals
  /\ Commit(ondataavailable([Cur EXCEPT !.pendingFinals = @ \ {p}],
                            [size |-> size, sessionId |-> p.sessionId,
                             superseded |-> p.superseded]))

\* A tick of a running analysis interval.
AnalysisTick(level) ==
  /\ analysisIntervalRef \/ orphans > 0
  /\ Commit(analyzeAudio(Cur, level))

\* The silence countdown expires.
SilenceTimeout ==
  /\ timeouts > 0
  /\ Commit(sendCurrentAudio(
              [Cur EXCEPT !.timeouts = @ - 1,
                          !.silenceTimerRef = IF @ = "pending" THEN "fired" ELSE @]))

\* fetch settles and the body is read: the call rejects, the status is not
\* ok, the body is not JSON, or the body is data.
FetchSettle(i, outcome, data) ==
  /\ i \in 1..Len(sends) /\ sends[i].pc = "fetch"
  /\ LET w == Cur
     IN  IF outcome = "ok" /\ data.text # None
         THEN IF data.transcript # None
              THEN Commit([w EXCEPT !.sends[i].pc = "save", !.sends[i].data = data])
              ELSE Commit(ApplyResponse([w EXCEPT !.sends[i].data = data], i))
         ELSE Commit(Catch([w EXCEPT !.sends = RemoveAt(@, i)],
                           CASE outcome = "reject" -> FetchFailed
                             [] outcome = "notOk" -> ApiError
                             [] outcome = "malformed" -> MalformedBody
                             [] OTHER -> NoText))

\* saveTranscript settles.
SaveSettle(i, saved) ==
  /\ i \in 1..Len(sends) /\ sends[i].pc = "save"
  /\ IF saved THEN Commit(ApplyResponse(Cur, i))
     ELSE Commit(Catch([Cur EXCEPT !.sends = RemoveAt(@, i)], SaveFailed))

\* audio.play() settles: playback started, was blocked (no error event
\* follows), or failed on the media (an error event follows or preceded).
PlaySettle(i, outcome) ==
  /\ i \in 1..Len(sends) /\ sends[i].pc = "play"
  /\ LET w == [Cur EXCEPT !.sends = RemoveAt(@, i)]
     IN  IF currentAudioRef = "starting"
         THEN CASE outcome = "started" ->
                     Commit(Finally([w EXCEPT !.currentAudioRef = "playing"]))
                [] outcome = "blocked" ->
                     Commit(Catch([w EXCEPT !.currentAudioRef = "blocked"],
                                  PlayFailed))
                [] OTHER ->
                     Commit(Catch([w EXCEPT !.currentAudioRef = "failing"],
                                  PlayFailed))
         ELSE outcome = "failed" /\ Commit(Catch(w, PlayFailed))

AudioEnded ==
  /\ currentAudioRef = "playing"
  /\ Commit(PlaybackOver(Cur))

AudioError ==
  /\ currentAudioRef \in {"starting", "playing", "failing"}
  /\ Commit(PlaybackOver(Cur))

Next ==
  \/ ToggleStart
  \/ \E i \in 1..MaxStarts, outcome \in {"allow", "deny", "reject"} :
        UsageSettle(i, outcome)
  \/ \E i \in 1..MaxStarts, granted \in BOOLEAN : MediaSettle(i, granted)
  \/ \E level \in BOOLEAN : ToggleStop(level)
  \/ \E level \in BOOLEAN : Unmount(level)
  \/ \E size \in ChunkSizes : DataAvailable(size)
  \/ \E p \in pendingFinals, size \in ChunkSizes : FinalData(p, size)
  \/ \E level \in BOOLEAN : AnalysisTick(level)
  \/ SilenceTimeout
  \/ \E i \in 1..MaxSends, outcome \in {"ok", "notOk", "malformed", "reject"},
        data \in ResponseData : FetchSettle(i, outcome, data)
  \/ \E i \in 1..MaxSends, saved \in BOOLEAN : SaveSettle(i, saved)
  \/ \E i \in 1..MaxSends, outcome \in {"started", "blocked", "failed"} :
        PlaySettle(i, outcome)
  \/ AudioEnded
  \/ AudioError

Spec == Init /\ [][Next]_vars

\* The component when start is clicked again while an earlier start is
\* suspended.
ToggleStartAgain == StartClicked(MaxDoubleStarts)

MediaSettleAgain(i, granted) == MediaSettled(i, granted, MaxLeaks)

NextDoubleStart ==
  \/ ToggleStartAgain
  \/ \E i \in 1..MaxDoubleStarts, outcome \in {"allow", "deny", "reject"} :
        UsageSettle(i, outcome)
  \/ \E i \in 1..MaxDoubleStarts, granted \in BOOLEAN : MediaSettleAgain(i, granted)
  \/ \E level \in BOOLEAN : ToggleStop(level)
  \/ \E level \in BOOLEAN : Unmount(level)
  \/ \E size \in ChunkSizes : DataAvailable(size)
  \/ \E p \in pendingFinals, size \in ChunkSizes : FinalData(p, size)
  \/ \E level \in BOOLEAN : AnalysisTick(level)
  \/ SilenceTimeout
  \/ \E i \in 1..MaxSends, outcome \in {"ok", "notOk", "malformed", "reject"},
        data \in ResponseData : FetchSettle(i, outcome, data)
  \/ \E i \in 1..MaxSends, saved \in BOOLEAN : SaveSettle(i, saved)
  \/ \E i \in 1..MaxSends, outcome \in {"started", "blocked", "failed"} :
        PlaySettle(i, outcome)
  \/ AudioEnded
  \/ AudioError

SpecDoubleStart == Init /\ [][NextDoubleStart]_vars

----------------------------------------------------------------------------
\* Properties

IsPrefix(s, t) == Len(s) <= Len(t) /\ \A i \in 1..Len(s) : s[i] = t[i]

CurrentState == [conversationHistory |-> conversationHistory,
                 interviewPhase |-> interviewPhase,
                 candidateInfo |-> candidateInfo]

Outstanding == {i \in 1..Len(sends) : sends[i].pc = "fetch"}

\* The step in which sendCurrentAudio i, holding the response data, gets past
\* its last await before the history update.
RoundTripApplies(i, data) ==
  /\ i <= Len(sends) /\ sends' # sends
  /\ \/ data.text # None /\ data.transcript = None /\ FetchSettle(i, "ok", data)
     \/ sends[i].data = data /\ SaveSettle(i, TRUE)

\* C1: at every moment at most one AI request is outstanding.
C1_OneRequestOutstanding ==
  Cardinality(Outstanding) <= 1

\* C2: the request issued by sendCurrentAudio of the mounted component
\* carries the history, the phase and the fact sheet the component holds at
\* that moment.
C2_RequestCarriesCurrentState ==
  [][mounted /\ Len(sends') > Len(sends)
       => sends'[Len(sends')].context = CurrentState]_vars

\* C3: within a session every change of the history keeps the earlier turns
\* in place and only appends.
C3_HistoryAppendOnly ==
  [][mounted /\ isActive /\ isActive'
       => IsPrefix(conversationHistory, conversationHistory')]_vars

\* C4: the utterance buffer never holds a chunk of a recorder that was
\* superseded before the buffer's session began.
C4_NoSupersededChunk ==
  \A i \in 1..Len(chunksRef) : ~chunksRef[i].superseded

\* C5: a chunk is appended to the utterance buffer only if it is non-empty,
\* carries the current session id, and arrives while the component is neither
\* processing nor playing.
C5_ChunkAcceptance ==
  [][Len(chunksRef') > Len(chunksRef)
       => LET e == chunksRef'[Len(chunksRef')]
          IN  /\ chunksRef' = Append(chunksRef, e)
              /\ e.size > 0
              /\ e.sessionId = currentRecordingSessionRef
              /\ ~isProcessingRef
              /\ ~isPlayingTTSRef]_vars

\* A chunk of the current session is in the buffer.
C5_Witness ==
  /\ Len(chunksRef) >= 1
  /\ chunksRef[1].sessionId = currentRecordingSessionRef
  /\ mediaRecorderRef = "recording"

\* C6: a successful response with text adds exactly the user turn and the
\* assistant turn to the history, recomputes the phase from the new history
\* and updates the fact sheet from the transcript.
C6_ResponseAppendsTwoTurns ==
  [][\A i \in 1..MaxSends, data \in ResponseData :
       mounted /\ RoundTripApplies(i, data)
         => LET user == Turn("user", IF data.transcript # None
                                     THEN data.transcript ELSE AudioPlaceholder)
                assistant == Turn("assistant", data.text)
            IN  /\ conversationHistory' = conversationHistory \o <<user, assistant>>
                /\ interviewPhase' = updateInterviewPhase(conversationHistory')
                /\ candidateInfo' = IF data.transcript # None
                                    THEN updateCandidateInfo(candidateInfo, data.transcript)
                                    ELSE candidateInfo]_vars

\* C7: the first successful round trip of a session (text and transcript, no
\* audio) leaves exactly the greeting, the user turn and the assistant turn.
C7_ThreeTurnsAfterFirstRoundTrip ==
  [][\A i \in 1..MaxSends, data \in ResponseData :
       /\ mounted /\ isActive /\ RoundTripApplies(i, data)
       /\ UserMessageCount(conversationHistory) = 0
       /\ data.transcript # None /\ ~data.audio
       => conversationHistory' = <<Turn("assistant", initialMessage),
                                   Turn("user", data.transcript),
                                   Turn("assistant", data.text)>>]_vars

\* C8: when the first recording session of a started interview begins to
\* capture, the greeting is the one turn of the history.
C8_GreetingWhenCaptureBegins ==
  [][\A i \in 1..MaxStarts :
       mounted /\ MediaSettle(i, TRUE)
         => conversationHistory' = <<Turn("assistant", initialMessage)>>]_vars

\* C9: when the AI network call rejects, an error message is recorded, the
\* session id grows by exactly one with one recorder started for it, and the
\* processing flag is cleared.
C9_RejectRestartsOnce ==
  [][\A i \in 1..Len(sends) :
       FetchSettle(i, "reject", NoData)
         => /\ currentRecordingSessionRef' = currentRecordingSessionRef + 1
            /\ ~isProcessingRef'
            /\ mounted => error' = FetchFailed /\ ~isProcessing'
            /\ streamRef = "live"
                 => mediaRecorderRef' = "recording"
                    /\ recorderSessionId' = currentRecordingSessionRef']_vars

\* The rejected fetch left its message, and the next session is recording.
C9_Witness ==
  /\ mounted /\ isActive /\ error = FetchFailed /\ sends = <<>>
  /\ ~isProcessingRef /\ ~isProcessing /\ ~isPlayingTTSRef
  /\ currentRecordingSessionRef = 2 /\ recorderSessionId = 2
  /\ mediaRecorderRef = "recording"

\* C10: once nothing of a turn is pending any more (no suspended
\* sendCurrentAudio, no playback that can still end or fail), the active
\* session is back in Recording with the processing and playing flags false.
C10_TurnEndsInRecording ==
  (/\ mounted /\ isActive /\ sends = <<>>
   /\ currentAudioRef \notin {"starting", "playing", "failing"})
    => ~isProcessingRef /\ ~isPlayingTTSRef

\* C11: a playback error is handled like playback completion: when the audio
\* element reports an error, and when play() fails to start, the playing flag
\* is cleared and the session id grows by exactly one.
C11_PlaybackErrorLikeCompletion ==
  [][/\ mounted /\ AudioError
          => ~isPlayingTTSRef'
             /\ currentRecordingSessionRef' = currentRecordingSessionRef + 1
     /\ \A i \in 1..Len(sends), outcome \in {"blocked", "failed"} :
          mounted /\ PlaySettle(i, outcome)
            => ~isPlayingTTSRef'
               /\ currentRecordingSessionRef' = currentRecordingSessionRef + 1]_vars

\* C12: when sendCurrentAudio gets past its entry guard with a payload that
\* is empty or below the minimum size, no request is issued, an error message
\* is recorded and the next recording session is started.
C12_SmallPayloadNoCall ==
  [][(chunksRef # <<>> /\ ~isProcessingRef
        /\ BlobSize(chunksRef) < MinAudioSize /\ SilenceTimeout)
       => /\ sends' = sends
          /\ currentRecordingSessionRef' = currentRecordingSessionRef + 1
          /\ ~isProcessingRef'
          /\ mounted => error' \in {EmptyAudio, TooSmall} /\ ~isProcessing'
          /\ streamRef = "live"
               => mediaRecorderRef' = "recording"
                  /\ recorderSessionId' = currentRecordingSessionRef']_vars

\* The payload was refused, and the next session is recording.
C12_Witness ==
  /\ mounted /\ isActive /\ error = TooSmall /\ sends = <<>>
  /\ ~isProcessingRef /\ chunksRef = <<>>
  /\ currentRecordingSessionRef > 1
  /\ recorderSessionId = currentRecordingSessionRef
  /\ mediaRecorderRef = "recording"

\* C13: a successful response without audio never enters Playing: the
\* playing flag and the audio element are left as they were (false and none
\* in the mounted component), and the next recording session is started in
\* the same step.
C13_NoAudioSkipsPlaying ==
  [][\A i \in 1..Len(sends), data \in ResponseData :
       RoundTripApplies(i, data) /\ ~data.audio
         => /\ isPlayingTTSRef' = isPlayingTTSRef
            /\ currentAudioRef' = currentAudioRef
            /\ mounted => ~isPlayingTTSRef' /\ ~isPlayingTTS'
                          /\ currentAudioRef' = None
            /\ streamRef = "live"
                 => /\ currentRecordingSessionRef' = currentRecordingSessionRef + 1
                    /\ mediaRecorderRef' = "recording"
                    /\ recorderSessionId' = currentRecordingSessionRef'
                    /\ ~isProcessingRef']_vars

\* The response without audio was applied, and the next session is recording.
C13_Witness ==
  /\ mounted /\ isActive /\ sends = <<>> /\ error = ""
  /\ Len(conversationHistory) > 1
  /\ ~isPlayingTTSRef /\ ~isPlayingTTS /\ currentAudioRef = None
  /\ ~isProcessingRef
  /\ recorderSessionId = currentRecordingSessionRef
  /\ mediaRecorderRef = "recording"

\* A turn is in hand: a sendCurrentAudio is suspended, or the audio of its
\* response can still end.
TurnInHand ==
  sends # <<>> \/ currentAudioRef \in {"starting", "playing"}

\* C14: a successful response with audio enters Playing; while the audio is
\* starting or playing the playing flag is set and the buffer stays empty;
\* the session id never decreases while the turn is in hand, and the ended
\* event starts a recording session with a greater id.
C14_AudioPlaysThenRecords ==
  [][/\ \A i \in 1..Len(sends), data \in ResponseData :
          RoundTripApplies(i, data) /\ data.audio
            => /\ isPlayingTTSRef' /\ currentAudioRef' = "starting"
               /\ chunksRef' = <<>>
               /\ mounted => isPlayingTTS'
     /\ currentAudioRef \in {"starting", "playing"}
          => isPlayingTTSRef /\ chunksRef = <<>>
     /\ TurnInHand /\ TurnInHand'
          => currentRecordingSessionRef' >= currentRecordingSessionRef
     /\ AudioEnded
          => /\ currentRecordingSessionRef' > currentRecordingSessionRef
             /\ ~isPlayingTTSRef' /\ currentAudioRef' = None
             /\ mounted => ~isPlayingTTS'
             /\ streamRef = "live"
                  => mediaRecorderRef' = "recording"
                     /\ recorderSessionId' = currentRecordingSessionRef']_vars

\* The audio of the response is playing: nothing is buffered.
C14_Witness ==
  /\ mounted /\ isActive /\ currentAudioRef = "playing"
  /\ isPlayingTTSRef /\ isPlayingTTS /\ chunksRef = <<>>
  /\ mediaRecorderRef = "recording" /\ analysisIntervalRef

\* C15: a response that gets past its awaits after the component was torn
\* down changes neither the history, the phase nor the fact sheet, starts no
\* playback and starts no recording session.
C15_LateResponseIsNoOp ==
  [][\A i \in 1..Len(sends), data \in ResponseData :
       ~mounted /\ streamRef = "stopped" /\ RoundTripApplies(i, data)
         => /\ UNCHANGED <<conversationHistory, interviewPhase, candidateInfo>>
            /\ UNCHANGED <<currentAudioRef, isPlayingTTSRef>>
            /\ UNCHANGED <<currentRecordingSessionRef, mediaRecorderRef,
                           recorderSessionId>>]_vars

\* C16: whenever a session is active (Recording, Processing or Playing) the
\* stop button accepts a click, and the click leaves the session idle.
C16_StopAcceptedInEveryState ==
  [][/\ mounted /\ isActive => ~isProcessing
     /\ (\E level \in BOOLEAN : ToggleStop(level))
          => ~isActive' /\ ~isProcessingRef' /\ ~isPlayingTTSRef'
             /\ mediaRecorderRef' # "recording"]_vars

\* C17: when stop has run, no countdown is pending, no analysis interval is
\* running, nothing plays, no recorder records, no acquired stream is live,
\* the buffer is empty and the processing and playing flags are false.
C17_NothingActiveAfterStop ==
  [][(\E level \in BOOLEAN : ToggleStop(level))
       => /\ timeouts' = 0 /\ silenceTimerRef' = None
          /\ ~analysisIntervalRef' /\ orphans' = 0
          /\ currentAudioRef' = None
          /\ mediaRecorderRef' # "recording"
          /\ streamRef' # "live"
          /\ chunksRef' = <<>>
          /\ ~isProcessingRef' /\ ~isPlayingTTSRef']_vars

\* C18: the session id never decreases.
C18_SessionIdMonotone ==
  [][currentRecordingSessionRef' >= currentRecordingSessionRef]_vars

\* C19: an analysis sample arms a countdown only if speech has occurred in
\* the current session, the previous sample was speaking, this sample is
\* silence and the buffer is non-empty; a silence sample after a silence
\* sample arms none.
C19_CountdownArming ==
  [][timeouts' > timeouts
       => /\ hasSpokenInCurrentSessionRef
          /\ previousSpeakingStateRef
          /\ ~previousSpeakingStateRef'
          /\ Len(chunksRef) > 0
          /\ silenceTimerRef' = "pending"]_vars

\* A countdown was armed by the silence sample that followed speech.
C19_Witness ==
  /\ mounted /\ isActive /\ timeouts = 1 /\ silenceTimerRef = "pending"
  /\ hasSpokenInCurrentSessionRef /\ ~previousSpeakingStateRef
  /\ Len(chunksRef) > 0

\* C20: at most one countdown is pending, and the ref holds it: no place
\* forgets a pending countdown without clearing it.
C20_OneCountdownPending ==
  /\ timeouts <= 1
  /\ silenceTimerRef = "pending" <=> timeouts = 1

\* The countdown of a later session is pending, the earlier ones are gone.
C20_Witness ==
  /\ mounted /\ isActive /\ timeouts = 1 /\ silenceTimerRef = "pending"
  /\ currentRecordingSessionRef > 1

\* C21: while the processing flag or the playing flag is set, no countdown
\* is pending and the buffer is empty.
C21_QuietWhileProcessingOrPlaying ==
  isProcessingRef \/ isPlayingTTSRef
    => timeouts = 0 /\ silenceTimerRef # "pending" /\ chunksRef = <<>>

----------------------------------------------------------------------------
\* The phase classifier on histories of every shape.

\* A turn of either role is appended and the phase recomputed from the new
\* history, as sendCurrentAudio does with the turns of a response.
AppendTurn(role) ==
  /\ Len(conversationHistory) < MaxTurns
  /\ LET newHistory ==
           Append(conversationHistory,
                  Turn(role, IF role = "user" THEN AudioPlaceholder ELSE ResponseText))
         w1 == SetState(Cur, "conversationHistory", newHistory)
     IN  Commit(SetState(w1, "interviewPhase", updateInterviewPhase(newHistory)))

NextPhase == \E role \in {"user", "assistant"} : AppendTurn(role)

SpecPhase == Init /\ [][NextPhase]_vars

\* The phase table of the interview, by number of user turns.
PhaseOfCount(n) ==
  CASE n \in 0..2 -> "introduction"
    [] n \in 3..5 -> "experience"
    [] n \in 6..8 -> "skills"
    [] n \in 9..11 -> "motivation"
    [] OTHER -> "closing"

\* C22: the phase is a function of the number of user turns only: 0..2
\* introduction, 3..5 experience, 6..8 skills, 9..11 motivation, 12 and
\* more closing, whatever assistant turns stand between them.
C22_PhaseByUserTurns ==
  \A n \in 0..MaxTurns :
    Cardinality({k \in DOMAIN conversationHistory :
                   conversationHistory[k].role = "user"}) = n
      => interviewPhase = PhaseOfCount(n)

\* Twelve user turns and an assistant turn: closing.
C22_Witness ==
  /\ UserMessageCount(conversationHistory) = 12
  /\ Len(conversationHistory) = 13
  /\ interviewPhase = "closing"

----------------------------------------------------------------------------
\* The fact sheet under every order of the transcripts.

\* updateCandidateInfo(data.text, data.transcript) of a response whose
\* transcript is t.
FeedTranscript(t) ==
  Commit(SetState(Cur, "candidateInfo", updateCandidateInfo(candidateInfo, t)))

NextFacts == \E t \in SpokenTranscripts : FeedTranscript(t)

SpecFacts == Init /\ [][NextFacts]_vars

\* C24: a fact kind that holds a value keeps that value under every later
\* transcript; a transcript changes only kinds that are empty.
C24_FactsWriteOnce ==
  [][\A kind \in Kinds :
       candidateInfo[kind] # None => candidateInfo'[kind] = candidateInfo[kind]]_vars

\* Every kind is filled; the name and the university came from different
\* transcripts, and the transcripts fed after them left them alone.
C24_Witness ==
  /\ \A kind \in Kinds : candidateInfo[kind] # None
  /\ candidateInfo.name = "Hanako"
  /\ candidateInfo.university = "Kyodai-wo"

----------------------------------------------------------------------------
\* The prompt composer on conversation states of every shape.

PromptTurns == {Turn("user", "TARO"), Turn("user", AudioPlaceholder),
                Turn("assistant", ResponseText)}

Histories == UNION {[1..n -> PromptTurns] : n \in 0..MaxPromptTurns}

Phases == {"introduction", "experience", "skills", "motivation", "closing"}

FactSheets == [name : {None, "Taro"},
               university : {None, "Todai-shusshin"},
               experience : {None, "Eigyo-no-keiken-ga"},
               company : {None, "ABC-shoji"},
               skills : {None, "Programming-ga-tokui-de"}]

InitPrompt ==
  /\ \E c \in [conversationHistory : Histories, interviewPhase : Phases,
               candidateInfo : FactSheets] : Constructed(c)
  /\ accounted = FALSE
  /\ progress = FALSE
  /\ useInterview = NoHook

\* sendCurrentAudio of the current render composes the prompt of a request.
Compose ==
  Commit([Cur EXCEPT !.sends =
            Append(@, Request([conversationHistory |-> conversationHistory,
                               interviewPhase |-> interviewPhase,
                               candidateInfo |-> candidateInfo]))])

NextPrompt == Compose

SpecPrompt == InitPrompt /\ [][NextPrompt]_vars

\* The lines of a rendered history that carry a turn.
TurnLines(lines) == SelectSeq(lines, LAMBDA l : l.label # "exchange")

C26_FactsRenderedFaithfully ==
  \A i \in 1..Len(sends) :
    \A kind \in Kinds :
      (\E k \in DOMAIN sends[i].systemPrompt.candidateInfoText :
         sends[i].systemPrompt.candidateInfoText[k].label = kind)
        <=> sends[i].closure.candidateInfo[kind] # None

\* A start ends without a session: the usage check denies or rejects, or
\* getUserMedia rejects.
StartRefused(i) ==
  /\ starts' # starts
  /\ i \in 1..Len(starts)
  /\ \/ UsageSettle(i, "deny")
     \/ UsageSettle(i, "reject")
     \/ MediaSettle(i, FALSE)

\* C27: a start that the usage check denies or that does not get the
\* microphone starts no recording session, schedules no analysis timer,
\* leaves the session inactive and surfaces an error message.
C27_RefusedStartStaysIdle ==
  [][\A i \in 1..MaxStarts + 1 :
       StartRefused(i)
         => /\ UNCHANGED <<currentRecordingSessionRef, mediaRecorderRef,
                           recorderSessionId, analysisIntervalRef, streamRef,
                           audioContextRef, chunksRef, timeouts, isActive>>
            /\ mounted => error' \in {"usage", "mic"}]_vars

\* The usage check has denied the only start.
C27_Witness ==
  /\ mounted /\ ~isActive /\ starts = <<>> /\ error = "usage"
  /\ currentRecordingSessionRef = 0 /\ mediaRecorderRef = None
  /\ streamRef = None /\ ~analysisIntervalRef

\* C29: when saveTranscript fails, the turn goes on as a turn whose
\* persistence succeeded: the user turn and the assistant turn are the last
\* two turns of the history, no error takes the place of the turn, and
\* playback of an audio response begins.
C29_SaveFailureKeepsTurn ==
  [][\A i \in 1..MaxSends :
       (sends' # sends /\ i <= Len(sends) /\ mounted /\ SaveSettle(i, FALSE))
         => LET data == sends[i].data
                n == Len(conversationHistory')
            IN  /\ n >= 2
                /\ conversationHistory'[n - 1] = Turn("user", data.transcript)
                /\ conversationHistory'[n] = Turn("assistant", data.text)
                /\ error' = ""
                /\ data.audio => isPlayingTTSRef' /\ currentAudioRef' = "starting"]_vars

\* A turn fails on its payload or on the response.
TurnFails ==
  \/ /\ chunksRef # <<>> /\ ~isProcessingRef
     /\ BlobSize(chunksRef) < MinAudioSize
     /\ SilenceTimeout
  \/ /\ sends' # sends
     /\ \E i \in 1..Len(sends) :
          \/ \E outcome \in {"reject", "notOk", "malformed"} :
               FetchSettle(i, outcome, NoData)
          \/ \E data \in ResponseData :
               data.text = None /\ FetchSettle(i, "ok", data)

\* C30: a turn that fails on its payload or on the response leaves the
\* history, the phase and the fact sheet as they were; within a session
\* they change only in the step that applies a completed round trip.
C30_FailedTurnKeepsConversation ==
  [][/\ TurnFails
          => UNCHANGED <<conversationHistory, interviewPhase, candidateInfo>>
     /\ (/\ <<conversationHistory, interviewPhase, candidateInfo>>' #
               <<conversationHistory, interviewPhase, candidateInfo>>
         /\ starts' = starts /\ mounted' = mounted)
          => \E i \in 1..Len(sends), data \in ResponseData :
               RoundTripApplies(i, data)]_vars

\* A turn has failed on the response after a round trip was completed.
C30_Witness ==
  /\ mounted /\ isActive
  /\ error \in {ApiError, MalformedBody, NoText, FetchFailed}
  /\ Len(conversationHistory) = 2
  /\ candidateInfo.name # None

----------------------------------------------------------------------------
\* The component with the usage accounting of its sessions.

NextUsage ==
  \/ Next
  \/ \E resolved \in BOOLEAN : UsageReported(resolved)

SpecUsage == InitUsage /\ [][NextUsage]_vars

\* C28: every stop of a session that entered Recording hands the duration
\* of that session to the usage accounting, exactly once, also when the
\* report of the session before it is still in flight when the session
\* starts.
C28_EveryStopReportsUsage ==
  [][(\E level \in BOOLEAN : ToggleStop(level))
       => usageReports' = usageReports + 1]_vars

----------------------------------------------------------------------------
\* The endpoint POST /api/interview-conversation and the component behind
\* it.

\* What the model call gives: it throws, or it answers plain text, a JSON
\* object with text and transcript, a JSON object with text only, braces
\* that do not parse, or nothing.
AiOutcomes == {"throws", "plain", "json", "jsonTextOnly", "badJson", "empty"}

\* What synthesizeSpeech gives: it throws, or it answers without
\* audioContent (Buffer.from throws), with no bytes, or with audio.
TtsOutcomes == {"throws", "noContent", "emptyContent", "content"}

EndpointRequests ==
  [audio : BOOLEAN, ai : AiOutcomes, tts : TtsOutcomes, transcript : Transcripts]

Body(status, text, transcript, audio, mimeType) ==
  [status |-> status, text |-> text, transcript |-> transcript,
   audio |-> audio, mimeType |-> mimeType]

POST_MimeTypeFirst(req) ==
  IF ~req.audio THEN Body(400, None, None, None, None)
  ELSE IF req.ai = "throws" THEN Body(500, None, None, None, None)
  ELSE Body(200,
            IF req.ai = "empty" THEN "" ELSE ResponseText,
            IF req.ai = "json" THEN req.transcript ELSE None,
            CASE req.tts = "content" -> "base64"
              [] req.tts = "emptyContent" -> ""
              [] OTHER -> None,
            "audio/mp3")

\* The handler: 400 without an audio file, 500 when the model call throws,
\* else the text (every text that is not empty stands as ResponseText), the
\* transcript of a parsed object, and audio and mimeType as the try block
\* of the synthesis left them.
POST(req) ==
  IF ~req.audio THEN Body(400, None, None, None, None)
  ELSE IF req.ai = "throws" THEN Body(500, None, None, None, None)
  ELSE Body(200,
            IF req.ai = "empty" THEN "" ELSE ResponseText,
            IF req.ai = "json" THEN req.transcript ELSE None,
            CASE req.tts = "content" -> "base64"
              [] req.tts = "emptyContent" -> ""
              [] OTHER -> None,
            IF req.tts \in {"content", "emptyContent"} THEN "audio/mp3" ELSE None)

\* response.ok
ClientOutcome(body) == IF body.status = 200 THEN "ok" ELSE "notOk"

\* The body as sendCurrentAudio tests it: "!data.text", "data.transcript",
\* "data.audio && data.mimeType".
ClientData(body) ==
  [text |-> IF body.text = "" THEN None ELSE body.text,
   transcript |-> body.transcript,
   audio |-> body.audio \notin {None, ""} /\ body.mimeType # None]

\* The endpoint answers the request of sendCurrentAudio i.
\* what the client makes of the endpoint's answers to the given requests
Answers(requests) ==
  {<<ClientOutcome(POST(req)), ClientData(POST(req))>> : req \in requests}

AllAnswers == Answers(EndpointRequests)

EndpointAnswers(i, answer) == FetchSettle(i, answer[1], answer[2])

NextEndpoint ==
  \/ ToggleStart
  \/ \E i \in 1..MaxStarts, outcome \in {"allow", "deny", "reject"} :
        UsageSettle(i, outcome)
  \/ \E i \in 1..MaxStarts, granted \in BOOLEAN : MediaSettle(i, granted)
  \/ \E level \in BOOLEAN : ToggleStop(level)
  \/ \E level \in BOOLEAN : Unmount(level)
  \/ \E size \in ChunkSizes : DataAvailable(size)
  \/ \E p \in pendingFinals, size \in ChunkSizes : FinalData(p, size)
  \/ \E level \in BOOLEAN : AnalysisTick(level)
  \/ SilenceTimeout
  \/ \E i \in 1..MaxSends, answer \in AllAnswers : EndpointAnswers(i, answer)
  \/ \E i \in 1..MaxSends, saved \in BOOLEAN : SaveSettle(i, saved)
  \/ \E i \in 1..MaxSends, outcome \in {"started", "blocked", "failed"} :
        PlaySettle(i, outcome)
  \/ AudioEnded
  \/ AudioError

SpecEndpoint == Init /\ [][NextEndpoint]_vars

\* The request reaches the synthesis with a text, and the synthesis fails.
SynthesisFailed(req) ==
  /\ req.audio /\ req.ai \notin {"throws", "empty"}
  /\ req.tts \in {"throws", "noContent"}

FailedSynthesisAnswers ==
  Answers({req \in EndpointRequests : SynthesisFailed(req)})

\* C31: when the synthesis fails the endpoint answers 200 with the text and
\* with audio and mimeType both null; in every answer audio is null exactly
\* when mimeType is null; and the step of the component that applies a
\* response without audio surfaces no error.
C31_NoAudioIsNoError ==
  [][(/\ Outstanding # {} /\ sends' # sends /\ Len(sends') <= Len(sends)
      /\ error' # error) =>
       /\ \A req \in EndpointRequests :
            LET body == POST(req)
            IN  /\ body.audio = None <=> body.mimeType = None
                /\ SynthesisFailed(req)
                     => /\ body.status = 200 /\ body.text = ResponseText
                        /\ body.audio = None /\ body.mimeType = None
       /\ \A i \in Outstanding, answer \in FailedSynthesisAnswers :
            ~EndpointAnswers(i, answer)
       /\ \A i \in 1..Len(sends), data \in ResponseData :
            ~data.audio => ~RoundTripApplies(i, data)]_vars

\* A response with text and transcript and without audio was applied; no
\* error is shown and the next session is recording.
C31_Witness ==
  /\ mounted /\ isActive /\ sends = <<>> /\ error = ""
  /\ conversationHistory = <<Turn("user", "TARO"), Turn("assistant", ResponseText)>>
  /\ currentAudioRef = None /\ ~isPlayingTTSRef
  /\ mediaRecorderRef = "recording"

\* The response of sendCurrentAudio i is applied with audio: a playback is
\* started.
PlaybackStarts ==
  /\ sends' # sends
  /\ \E i \in 1..Len(sends), data \in ResponseData :
       data.audio /\ RoundTripApplies(i, data)

\* C32: a playback is never started while the audio of an earlier response
\* is starting or playing.
C32_OnePlaybackOutstanding ==
  [][PlaybackStarts => currentAudioRef \notin {"starting", "playing"}]_vars

----------------------------------------------------------------------------
\* The component with its timers running: the analysis interval keeps
\* sampling, the recorder keeps delivering its timeslices, and a countdown
\* that is set expires.

Fairness ==
  /\ WF_vars(AnalysisTick(FALSE))
  /\ WF_vars(\E size \in ChunkSizes : DataAvailable(size))
  /\ WF_vars(SilenceTimeout)

SpecSilence == Init /\ [][Next]_vars /\ Fairness

\* The session has heard speech, holds a chunk, and its last sample was
\* silence.
SpokenThenSilent ==
  /\ mounted /\ isActive
  /\ mediaRecorderRef = "recording"
  /\ recorderSessionId = currentRecordingSessionRef
  /\ ~isProcessingRef /\ ~isPlayingTTSRef
  /\ hasSpokenInCurrentSessionRef /\ chunksRef # <<>>
  /\ ~previousSpeakingStateRef

\* Once the last sample was silence and no countdown is set, neither a further
\* silence sample nor a further chunk sets one, however many chunks arrive.
SilentSessionStaysUnarmed ==
  [][(/\ SpokenThenSilent
      /\ timeouts = 0 /\ silenceTimerRef = None
      /\ (AnalysisTick(FALSE) \/ \E size \in ChunkSizes : DataAvailable(size)))
       => (timeouts' = 0 /\ sends' = sends /\ ~previousSpeakingStateRef')]_vars

\* C33: when a recording session has heard speech and holds a chunk, and
\* the samples from then on are silence, the utterance is eventually handed
\* to sendCurrentAudio (a request, or a payload rejection), unless speech
\* resumes or the session is stopped.
C33_SilenceLeadsToSend ==
  SpokenThenSilent ~>
    \/ isProcessingRef
    \/ error \in {EmptyAudio, TooSmall}
    \/ previousSpeakingStateRef
    \/ ~isActive \/ ~mounted

----------------------------------------------------------------------------
\* C34: whenever a silence countdown is pending the buffer is non-empty,
\* speech has occurred in the current session and the component is neither
\* processing nor playing, so that the expiry passes the entry guard of
\* sendCurrentAudio.
C34_CountdownPendingMeansSendable ==
  timeouts > 0 =>
    /\ chunksRef # <<>>
    /\ hasSpokenInCurrentSessionRef
    /\ ~isProcessingRef
    /\ ~isPlayingTTSRef

----------------------------------------------------------------------------
\* C35: startNewRecordingSession invalidates the session in hand and nothing
\* else: run in any state the component reaches, it leaves the session id
\* one higher, the previous recorder stopped, the buffer empty, the
\* has-spoken and previous-speaking flags false and no countdown pending,
\* and it leaves history, phase, fact sheet and the processing and playing
\* flags as they were.
C35_RestartInvalidatesSessionOnly ==
  LET after == startNewRecordingSession(Cur)
  IN  /\ after.currentRecordingSessionRef = currentRecordingSessionRef + 1
      /\ mediaRecorderRef = "recording" =>
            /\ \E p \in after.pendingFinals : p.sessionId = recorderSessionId
            /\ after.mediaRecorderRef = "recording" =>
                  after.recorderSessionId = after.currentRecordingSessionRef
      /\ after.chunksRef = <<>>
      /\ ~after.hasSpokenInCurrentSessionRef
      /\ ~after.previousSpeakingStateRef
      /\ after.silenceTimerRef = None /\ after.timeouts = 0
      /\ after.conversationHistory = conversationHistory
      /\ after.interviewPhase = interviewPhase
      /\ after.candidateInfo = candidateInfo
      /\ after.isProcessingRef = isProcessingRef
      /\ after.isProcessing = isProcessing
      /\ after.isPlayingTTSRef = isPlayingTTSRef
      /\ after.isPlayingTTS = isPlayingTTS

\* A session opened by a restart after a completed turn: the recorder of
\* session 1 was stopped and the conversation was kept.
C35_Witness ==
  /\ mounted /\ isActive
  /\ currentRecordingSessionRef = 2 /\ recorderSessionId = 2
  /\ mediaRecorderRef = "recording"
  /\ chunksRef = <<>> /\ timeouts = 0 /\ silenceTimerRef = None
  /\ ~hasSpokenInCurrentSessionRef /\ ~previousSpeakingStateRef
  /\ conversationHistory # <<>>

----------------------------------------------------------------------------
\* The progress display of the countdown.

ElapsedTimes == {UpdateStep, SILENCE_DURATION}

\* A scheduled updateTimer callback runs (353).
UpdateTimerFires(elapsed) ==
  /\ updateTimers > 0
  /\ Commit(updateTimer([Cur EXCEPT !.updateTimers = @ - 1],
                        elapsed, elapsed < SILENCE_DURATION))

NextProgress ==
  \/ Next
  \/ \E elapsed \in ElapsedTimes : UpdateTimerFires(elapsed)

SpecProgress == InitProgress /\ [][NextProgress]_vars

\* C36: the displayed silence-timer value is zero whenever no silence
\* countdown is pending, even when a progress callback of a cancelled
\* countdown is still scheduled.
C36_DisplayZeroWithoutCountdown ==
  (mounted /\ timeouts = 0) => silenceTimer = 0

----------------------------------------------------------------------------
\* C37: in every state a completed operation leaves behind, the observable
\* processing, playing and has-spoken flags equal their refs.
C37_FlagsMirrorRefs ==
  mounted =>
    /\ isProcessing = isProcessingRef
    /\ isPlayingTTS = isPlayingTTSRef
    /\ hasSpokenInCurrentSession = hasSpokenInCurrentSessionRef

----------------------------------------------------------------------------
\* microphone streams with live tracks, and analysis intervals running
LiveStreams == (IF streamRef = "live" THEN 1 ELSE 0) + orphans
RunningIntervals == (IF analysisIntervalRef THEN 1 ELSE 0) + orphans

\* C38: when start is requested again before the first start has
\* completed, there is still at most one microphone stream and one
\* periodic analysis timer.
C38_OneStartTakesEffect ==
  LiveStreams <= 1 /\ RunningIntervals <= 1

----------------------------------------------------------------------------
\* The useInterview hook: its handlers and the events of the voice client.

CommitHook(h) ==
  /\ \A e \in Events : Len(h.listeners[e]) <= MaxHandlers
  /\ Len(h.awaiting) <= MaxAwaiting
  /\ Len(h.usage) <= MaxUsage
  /\ h.fullTranscript <= MaxTranscript
  /\ h.calls <= MaxCalls
  /\ useInterview' = Render(h)
  /\ UNCHANGED component

\* startCall up to its awaits (677-683)
StartCall ==
  /\ useInterview.mounted /\ useInterview.call = "idle"
  /\ CommitHook([SetHook(useInterview, "callStatus", "CONNECTING")
                   EXCEPT !.call = "connecting"])

\* canStartSession and vapi.start settle (684-787); a started call
\* announces itself with call-start
StartSettles(outcome) ==
  /\ useInterview.call = "connecting"
  /\ IF outcome = "started"
     THEN CommitHook(Emit([useInterview EXCEPT !.call = "live",
                                                !.calls = @ + 1],
                          "call-start", 0))
     ELSE CommitHook([SetHook(useInterview, "callStatus", "INACTIVE")
                        EXCEPT !.call = "idle"])

ClientEvent(event, minutes) ==
  /\ useInterview.call = "live"
  /\ CommitHook(Emit([useInterview EXCEPT
                        !.call = IF event = "call-end" THEN "idle" ELSE @],
                     event, minutes))

\* endCall up to await vapi.stop() (790-792)
EndCall ==
  /\ useInterview.mounted /\ useInterview.stopping = <<>>
  /\ CommitHook([useInterview EXCEPT !.stopping = <<Deps(useInterview)>>])

\* vapi.stop() settles: a stopped call announces itself with call-end; a
\* rejection runs the catch of endCall (794-826)
StopSettles(ok, minutes) ==
  /\ useInterview.stopping # <<>>
  /\ LET f == useInterview.stopping[1]
         h == [useInterview EXCEPT !.stopping = <<>>]
     IN  IF ok
         THEN IF h.call = "live"
              THEN CommitHook(Emit([h EXCEPT !.call = "idle"], "call-end", minutes))
              ELSE CommitHook(h)
         ELSE IF f.sessionStartTime # 0 /\ f.callStatus = "ACTIVE"
              THEN IF minutes > 0
                   THEN CommitHook([h EXCEPT !.awaiting =
                                      Append(@, [handler |-> "endCall",
                                                 session |-> f.sessionStartTime])])
                   ELSE CommitHook(SetHook(h, "sessionStartTime", 0))
              ELSE CommitHook(h)

\* addSessionUsage settles and the handler runs to its end
UsageSettles(i, ok) ==
  /\ i \in 1..Len(useInterview.awaiting)
  /\ LET k == useInterview.awaiting[i]
         h1 == [useInterview EXCEPT
                  !.awaiting = SubSeq(@, 1, i - 1) \o SubSeq(@, i + 1, Len(@)),
                  !.usage = IF ok THEN Append(@, k.session) ELSE @]
     IN  IF k.handler = "endCall" /\ ~ok
         THEN CommitHook(h1)
         ELSE CommitHook(SetHook(h1, "sessionStartTime", 0))

\* the component that uses the hook is unmounted: the effect's cleanup runs
UnmountHook ==
  /\ useInterview.mounted
  /\ CommitHook([useInterview EXCEPT
                   !.listeners = Detach(@, useInterview.deps),
                   !.mounted = FALSE])

NextHook ==
  \/ StartCall
  \/ \E outcome \in {"denied", "failed", "started"} : StartSettles(outcome)
  \/ \E event \in Events \ {"call-start"}, minutes \in 0..1 :
        ClientEvent(event, minutes)
  \/ EndCall
  \/ \E ok \in BOOLEAN, minutes \in 0..1 : StopSettles(ok, minutes)
  \/ \E i \in 1..MaxAwaiting, ok \in BOOLEAN : UsageSettles(i, ok)
  \/ UnmountHook

SpecHook == InitHook /\ [][NextHook]_vars

\* C39: after any number of effect re-runs at most one handler per event is
\* attached to the voice client, and after the final teardown none is.
C39_OneHandlerPerEvent ==
  \A e \in Events :
    /\ Len(useInterview.listeners[e]) <= 1
    /\ ~useInterview.mounted => useInterview.listeners[e] = <<>>

\* C40: the usage of one call session is added to the usage accounting at
\* most once.
C40_UsageAddedOnce ==
  \A i, j \in 1..Len(useInterview.usage) :
    useInterview.usage[i] = useInterview.usage[j] => i = j

====
